---- MODULE Spec2Model ----
(***************************************************************************)
(* Release pipeline of the Ribbit Frog firmware: the recipes of the        *)
(* Makefile (build, flash, clean) and the CI workflow job that tests,      *)
(* builds and uploads the bundle to the device-management service.         *)
(***************************************************************************)
EXTENDS Integers, Sequences, FiniteSets, TLC

(***************************************************************************)
(* Strings are sequences of one-character strings, so that the workflow's  *)
(* comparisons are computed character by character.                        *)
(***************************************************************************)
UpperChars == <<"A","B","C","D","E","F","G","H","I","J","K","L","M",
                "N","O","P","Q","R","S","T","U","V","W","X","Y","Z">>
LowerChars == <<"a","b","c","d","e","f","g","h","i","j","k","l","m",
                "n","o","p","q","r","s","t","u","v","w","x","y","z">>

\* One character with its case folded, as the expression evaluator of the
\* workflow runner does before comparing two strings.
FoldChar(c) ==
    IF \E i \in 1..Len(UpperChars) : UpperChars[i] = c
    THEN LowerChars[CHOOSE i \in 1..Len(UpperChars) : UpperChars[i] = c]
    ELSE c

FoldCase(s) == [i \in 1..Len(s) |-> FoldChar(s[i])]

\* The == operator of a workflow expression on two strings: the runner
\* ignores case when it compares strings.
ExprEquals(a, b) == FoldCase(a) = FoldCase(b)

\* startsWith(searchString, searchValue) of a workflow expression; the
\* function is not case sensitive.
ExprStartsWith(s, prefix) ==
    /\ Len(prefix) <= Len(s)
    /\ FoldCase(SubSeq(s, 1, Len(prefix))) = FoldCase(prefix)

\* The literal 'refs/heads/main' of the first upload step's condition.
RefsHeadsMain == <<"r","e","f","s","/","h","e","a","d","s","/","m","a","i","n">>
\* The literal 'refs/tags/v' of the second upload step's condition.
RefsTagsV == <<"r","e","f","s","/","t","a","g","s","/","v">>

RefsHeads == <<"r","e","f","s","/","h","e","a","d","s","/">>
RefsTags  == <<"r","e","f","s","/","t","a","g","s","/">>
RefsPull  == <<"r","e","f","s","/","p","u","l","l","/">>

\* The refs a push, a pull request or a manual dispatch can hand to a run
\* (github.ref): branches, tags and pull-request merge refs.
Refs ==
    { RefsHeads \o <<"m","a","i","n">>,
      RefsHeads \o <<"M","a","i","n">>,
      RefsHeads \o <<"m","a","i","n","t">>,
      RefsHeads \o <<"f","e","a","t","u","r","e","/","x">>,
      RefsHeads \o <<"v","1">>,
      RefsPull  \o <<"7","/","m","e","r","g","e">>,
      RefsTags  \o <<"v","1",".","2",".","0">>,
      RefsTags  \o <<"V","2">>,
      RefsTags  \o <<"v">>,
      RefsTags  \o <<"r","c","1">>,
      RefsTags  \o <<"m","a","i","n">> }

(***************************************************************************)
(* The workflow job: its steps in order, their conditions and their        *)
(* environment.                                                            *)
(***************************************************************************)
\* The job with its first upload step written twice.
StepsUploadTwice == <<"Checkout", "FetchSubmodules", "Test", "Build",
                      "UploadMain", "UploadMain", "UploadArtifacts">>

\* The job with its Test step moved behind the upload steps.
StepsTestLate == <<"Checkout", "FetchSubmodules", "Build",
                   "UploadMain", "UploadRelease", "Test", "UploadArtifacts">>

Steps == <<"Checkout", "FetchSubmodules", "Test", "Build",
           "UploadMain", "UploadRelease", "UploadArtifacts">>

UploadSteps == {"UploadMain", "UploadRelease"}

\* The conditions with the release step's prefix cut short to 'refs/'.
StepIfShortPrefix(step, r) ==
    CASE step = "UploadMain"    -> ExprEquals(r, RefsHeadsMain)
      [] step = "UploadRelease" -> ExprStartsWith(r, <<"r","e","f","s","/">>)
      [] OTHER                  -> TRUE

\* The `if:` expression of each step, on github.ref; a step without one
\* has no condition of its own.
StepIf(step, r) ==
    CASE step = "UploadMain"    -> ExprEquals(r, RefsHeadsMain)
      [] step = "UploadRelease" -> ExprStartsWith(r, RefsTagsV)
      [] OTHER                  -> TRUE

BetaBlueprint == "65c3ebd0f4542d968bf23817"
ProductionBlueprint == "638a8a406a504ec89e7b18ee"

\* The environment with GOLIOTH_ROLLOUT true on both upload steps.
StepEnvRolloutBoth(step) ==
    CASE step = "UploadMain" ->
            [project |-> "ribbit", blueprint |-> BetaBlueprint, rollout |-> TRUE]
      [] step = "UploadRelease" ->
            [project |-> "ribbit", blueprint |-> ProductionBlueprint, rollout |-> TRUE]

\* The environment with GOLIOTH_ROLLOUT false on both upload steps.
StepEnvRolloutNone(step) ==
    CASE step = "UploadMain" ->
            [project |-> "ribbit", blueprint |-> BetaBlueprint, rollout |-> FALSE]
      [] step = "UploadRelease" ->
            [project |-> "ribbit", blueprint |-> ProductionBlueprint, rollout |-> FALSE]

\* The `env:` block of each upload step.
StepEnv(step) ==
    CASE step = "UploadMain" ->
            [project |-> "ribbit", blueprint |-> BetaBlueprint, rollout |-> TRUE]
      [] step = "UploadRelease" ->
            [project |-> "ribbit", blueprint |-> ProductionBlueprint, rollout |-> FALSE]

\* The upload steps with continue-on-error: true.
ContinueOnErrorUploads(step) == step \in UploadSteps

\* The deployment targets the job acts on for a ref: the environment of
\* each upload step whose condition holds.
Resolve(r) == {StepEnv(s) : s \in {u \in UploadSteps : StepIf(u, r)}}

\* No step of the job sets continue-on-error, so a failed step fails the job.
ContinueOnError(step) == FALSE

\* The conditions evaluated as if written always() && (condition).
ShouldRunAlways(step, st, r) == StepIf(step, r)

\* The steps run as if none had an `if:` of its own.
ShouldRunNoIf(step, st, r) == st = "success"

\* A step whose condition names no status function runs only while every
\* earlier step has succeeded: its condition is success() && (condition).
ShouldRun(step, st, r) == st = "success" /\ StepIf(step, r)

\* The job's status after a step has ended with the given exit status.
StatusAfter(step, st, exit) ==
    IF exit # 0 /\ ~ContinueOnError(step) THEN "failure" ELSE st

(***************************************************************************)
(* The Makefile.  Files are named by their path below BUILD_DIR, one       *)
(* component per element; a file's content is "absent" (no such file),     *)
(* "empty", "stale" (left by an earlier build) or "fresh" (written by the  *)
(* toolchain run of this build).                                           *)
(***************************************************************************)
Content == {"absent", "empty", "stale", "fresh"}

\* ${BUILD_DIR}/frozen_content.c
FrozenContent == <<"frozen_content.c">>

\* The four sources of the cp command, in its order.
BuildOutputs == << <<"bootloader", "bootloader.bin">>,
                   <<"partition_table", "partition-table.bin">>,
                   <<"ota_data_initial.bin">>,
                   <<"micropython.bin">> >>

OutputSet == {BuildOutputs[i] : i \in 1..Len(BuildOutputs)}
BuildFiles == OutputSet \cup {FrozenContent}

\* A copy named by the first component of its source.
BasenameFirst(path) == path[1]

\* cp SOURCE... DIRECTORY names each copy by the last component of its source.
Basename(path) == path[Len(path)]

BundleNames == {Basename(p) : p \in OutputSet}

\* The recipe without its first command.
BuildRecipeNoRm == <<"ln", "make", "mkdir", "cp">>

\* The recipe of the build goal, one element per command line.
BuildRecipe == <<"rm", "ln", "make", "mkdir", "cp">>

\* The recipe of the flash goal: one esptool.py command.
FlashRecipe == <<"esptool">>

\* The recipe of the clean goal: one rm -rf command.
CleanRecipe == <<"rm-rf">>

\* The goal with no prerequisite.
PrerequisitesNone(t) == <<>>

\* The prerequisites of each goal: flash: build.
Prerequisites(t) == IF t = "flash" THEN <<"build">> ELSE <<>>

Recipe(t) ==
    CASE t = "build" -> BuildRecipe
      [] t = "flash" -> FlashRecipe
      [] t = "clean" -> CleanRecipe

\* The target make starts with for a goal: its first prerequisite, if any.
FirstTarget(g) ==
    IF Prerequisites(g) # <<>> THEN Prerequisites(g)[1] ELSE g

\* The write_flash arguments of esptool.py: offset (0x0, 0x8000, 0xd000,
\* 0x10000) and the file of ./firmware written there, in order.
FlashArgs == << <<0, "bootloader.bin">>,
               <<32768, "partition-table.bin">>,
               <<53248, "ota_data_initial.bin">>,
               <<65536, "micropython.bin">> >>

(***************************************************************************)
(* The upload script tools/upload-to-golioth.py, by its contract.          *)
(***************************************************************************)
\* The most attempts one invocation makes at the transport of the bundle.
MaxAttempts == 3

\* What the remote service will answer during one invocation: whether the
\* authentication fails, how many of the first transport attempts fail,
\* whether the service then rejects the bundle and whether the rollout
\* command fails.
FaultPlans ==
    [authFails : BOOLEAN, transportFails : 0..MaxAttempts,
     rejects : BOOLEAN, rolloutFails : BOOLEAN]

\* The outcome of the n-th transport attempt under a plan.
AttemptOutcome(plan, n) ==
    IF n <= plan.transportFails THEN "transport"
    ELSE IF plan.rejects THEN "rejected" ELSE "ok"

\* A transport failure of the n-th attempt is retried while attempts remain.
RetryAllowed(n) == n < MaxAttempts

IdleUpload == [phase |-> "idle", attempts |-> 0,
               plan |-> [authFails |-> FALSE, transportFails |-> 0,
                         rejects |-> FALSE, rolloutFails |-> FALSE]]

(***************************************************************************)
(* State.                                                                  *)
(***************************************************************************)
VARIABLES
    invocation,   \* "workflow": a CI run of the job; "make": make by hand;
                  \* "jobs": concurrent runs of the job
    goal,         \* the goal make was called with
    target,       \* the target whose recipe make is running
    firmware0,    \* ./firmware as it was when make started
    written,      \* what esptool wrote to the device: <<offset, content>>
    runs,         \* concurrent runs: run -> workspace, recipe line, exit
    trees,        \* their workspaces: workspace -> BUILD_DIR and ./firmware
    ref,          \* github.ref of the run
    pc,           \* index in Steps of the step to run next
    status,       \* status of the job so far: what success() tests
    results,      \* step name -> "pending", "success", "failure", "skipped"
    active,       \* a step of several actions is running
    line,         \* index in the recipe of the command make runs next, 0: none
    makeExit,     \* exit status of make, -1 until it has exited
    buildDir,     \* BUILD_DIR: path -> content
    firmware,     \* ./firmware: whether it exists and name -> content
    frozenSeen,   \* content of frozen_content.c when the toolchain started
    toolchainExit,\* exit status of the toolchain, -1 until it has exited
    up,           \* the upload script last started: phase, attempts, fault plan
    invocations,  \* step name -> number of times its script was started
    releases,     \* blueprint -> number of releases the service accepted
    rolloutCalls  \* number of rollout commands sent to the service

vars == <<invocation, goal, target, firmware0, written, runs, trees, ref, pc, status, results, active, line, makeExit,
          buildDir, firmware, frozenSeen, toolchainExit, up, invocations,
          releases, rolloutCalls>>

jobVars == <<pc, status, results>>
makeVars == <<line, makeExit, target>>
\* What no step of the job and no command of the build recipe changes.
restVars == <<goal, firmware0, written, runs, trees>>
fsVars == <<buildDir, firmware>>
remoteVars == <<up, invocations, releases, rolloutCalls>>

StepNames == {Steps[i] : i \in 1..Len(Steps)}
Blueprints == {BetaBlueprint, ProductionBlueprint}

\* The workspace of a hosted runner is a fresh checkout: nothing is built.
CleanBuildDir == [f \in BuildFiles |-> "absent"]
NoFirmware == [exists |-> FALSE, files |-> [n \in BundleNames |-> "absent"]]

\* What earlier builds can have left in a developer's tree.
EarlierBuildDirs ==
    { CleanBuildDir,
      [f \in BuildFiles |-> "stale"],
      [f \in BuildFiles |-> IF f = FrozenContent THEN "stale" ELSE "absent"],
      [f \in BuildFiles |-> IF f = <<"micropython.bin">> THEN "absent" ELSE "stale"] }

EarlierFirmware ==
    { NoFirmware,
      [exists |-> TRUE, files |-> [n \in BundleNames |-> "absent"]],
      [exists |-> TRUE, files |-> [n \in BundleNames |-> "stale"]],
      [exists |-> TRUE,
       files |-> [n \in BundleNames |-> IF n = "bootloader.bin" THEN "stale" ELSE "absent"]] }

Init ==
    /\ invocation \in {"workflow", "make"}
    /\ written = {}
    /\ runs = <<>>
    /\ trees = <<>>
    /\ pc = 1
    /\ status = "success"
    /\ results = [s \in StepNames |-> "pending"]
    /\ active = FALSE
    /\ makeExit = -1
    /\ frozenSeen = "notrun"
    /\ toolchainExit = -1
    /\ up = IdleUpload
    /\ invocations = [s \in UploadSteps |-> 0]
    /\ releases = [b \in Blueprints |-> 0]
    /\ rolloutCalls = 0
    /\ IF invocation = "workflow"
       THEN /\ ref \in Refs
            /\ goal = "build"
            /\ line = 0
            /\ buildDir = CleanBuildDir
            /\ firmware = NoFirmware
       ELSE /\ ref = RefsHeadsMain
            /\ goal \in {"build", "flash", "clean"}
            /\ line = 1
            /\ buildDir \in EarlierBuildDirs
            /\ firmware \in EarlierFirmware
    /\ firmware0 = firmware
    /\ target = FirstTarget(goal)

(***************************************************************************)
(* make build.                                                             *)
(***************************************************************************)
MakeRunning == target = "build" /\ line \in 1..Len(BuildRecipe)

\* make going on after a failed command, as under -i or a - prefix.
AfterCommandIgnoringErrors(exit) ==
    IF line = Len(Recipe(target))
    THEN IF target # goal
         THEN target' = goal /\ line' = 1 /\ makeExit' = makeExit
         ELSE target' = target /\ line' = 0 /\ makeExit' = 0
    ELSE target' = target /\ line' = line + 1 /\ makeExit' = makeExit

\* make after a command of the recipe has exited: on a non-zero status it
\* gives up on the goal and exits with status 2, otherwise it goes on to
\* the next command; after the last command of a prerequisite it goes on
\* to the recipe of the goal, and after the last one of the goal it exits
\* with status 0.
AfterCommand(exit) ==
    IF exit # 0
    THEN target' = target /\ line' = 0 /\ makeExit' = 2
    ELSE IF line = Len(Recipe(target))
         THEN IF target # goal
              THEN target' = goal /\ line' = 1 /\ makeExit' = makeExit
              ELSE target' = target /\ line' = 0 /\ makeExit' = 0
         ELSE target' = target /\ line' = line + 1 /\ makeExit' = makeExit

\* rm -f ${BUILD_DIR}/frozen_content.c
RmFrozen ==
    /\ MakeRunning /\ BuildRecipe[line] = "rm"
    /\ \E exit \in {0, 1} :
        /\ buildDir' = IF exit = 0
                       THEN [buildDir EXCEPT ![FrozenContent] = "absent"]
                       ELSE buildDir
        /\ AfterCommand(exit)
    /\ UNCHANGED <<invocation, restVars, ref, jobVars, active, firmware, frozenSeen,
                   toolchainExit, remoteVars>>

\* ln -sfn ${CURDIR}/board ${PORT_DIR}/boards/ribbit
LnBoard ==
    /\ MakeRunning /\ BuildRecipe[line] = "ln"
    /\ \E exit \in {0, 1} : AfterCommand(exit)
    /\ UNCHANGED <<invocation, restVars, ref, jobVars, active, fsVars, frozenSeen,
                   toolchainExit, remoteVars>>

\* What one toolchain run does to each file of BUILD_DIR: writes it anew,
\* writes it empty, or leaves it as it was.
ToolchainWrites ==
    { w \in [BuildFiles -> {"fresh", "empty", "untouched"}] :
        w[FrozenContent] # "empty" }

\* make -C ${PORT_DIR} BOARD=${BOARD} FROZEN_MANIFEST=${CURDIR}/manifest.py
Toolchain ==
    /\ MakeRunning /\ BuildRecipe[line] = "make"
    /\ frozenSeen' = buildDir[FrozenContent]
    /\ \E exit \in {0, 1}, w \in ToolchainWrites :
        /\ buildDir' = [f \in BuildFiles |->
                           IF w[f] = "untouched" THEN buildDir[f] ELSE w[f]]
        /\ toolchainExit' = exit
        /\ AfterCommand(exit)
    /\ UNCHANGED <<invocation, restVars, ref, jobVars, active, firmware, remoteVars>>

\* mkdir -p ./firmware
MkdirFirmware ==
    /\ MakeRunning /\ BuildRecipe[line] = "mkdir"
    /\ \E exit \in (IF firmware.exists THEN {0} ELSE {0, 1}) :
        /\ firmware' = IF exit = 0
                       THEN [firmware EXCEPT !.exists = TRUE]
                       ELSE firmware
        /\ AfterCommand(exit)
    /\ UNCHANGED <<invocation, restVars, ref, jobVars, active, buildDir, frozenSeen,
                   toolchainExit, remoteVars>>

\* cp that keeps a file the directory already holds, as cp -n does.
CopiedNoClobber(dir, files, n) ==
    IF files[n] # "absent" THEN files[n]
    ELSE IF \E p \in OutputSet : Basename(p) = n /\ dir[p] # "absent"
         THEN dir[CHOOSE p \in OutputSet : Basename(p) = n /\ dir[p] # "absent"]
         ELSE files[n]

\* The file of ./firmware named n after cp has copied the sources that
\* exist: the source whose last component is n, or what was there.
Copied(dir, files, n) ==
    IF \E p \in OutputSet : Basename(p) = n /\ dir[p] # "absent"
    THEN dir[CHOOSE p \in OutputSet : Basename(p) = n /\ dir[p] # "absent"]
    ELSE files[n]

\* cp exits non-zero when a source is missing or ./firmware is no directory.
CpExit(dir, fw) ==
    IF fw.exists /\ \A p \in OutputSet : dir[p] # "absent" THEN 0 ELSE 1

\* cp bootloader.bin partition-table.bin ota_data_initial.bin
\*    micropython.bin ./firmware
CpArtifacts ==
    /\ MakeRunning /\ BuildRecipe[line] = "cp"
    /\ firmware' = IF firmware.exists
                   THEN [firmware EXCEPT !.files =
                            [n \in BundleNames |-> Copied(buildDir, firmware.files, n)]]
                   ELSE firmware
    /\ AfterCommand(CpExit(buildDir, firmware))
    /\ UNCHANGED <<invocation, restVars, ref, jobVars, active, buildDir, frozenSeen,
                   toolchainExit, remoteVars>>

(***************************************************************************)
(* make flash and make clean.                                              *)
(***************************************************************************)
\* ./firmware holds a file named n.
HasFile(fw, n) == fw.exists /\ n \in DOMAIN fw.files /\ fw.files[n] # "absent"

\* What esptool.py has written after the first k of its arguments.
FlashWrites(fw, k) == {<<FlashArgs[i][1], fw.files[FlashArgs[i][2]]>> : i \in 1..k}

\* esptool.py ... write_flash 0x0 firmware/bootloader.bin
\*   0x8000 firmware/partition-table.bin 0xd000 firmware/ota_data_initial.bin
\*   0x10000 firmware/micropython.bin
\* It opens the four files before it touches the device, and fails at once
\* when one is missing; it then writes them in order, and a failure on the
\* way (no device, a write error) leaves the ones before it written.
EsptoolWriteFlash ==
    /\ target = "flash" /\ line \in 1..Len(FlashRecipe)
    /\ FlashRecipe[line] = "esptool"
    /\ IF \A i \in 1..Len(FlashArgs) : HasFile(firmware, FlashArgs[i][2])
       THEN \E k \in 0..Len(FlashArgs) :
               /\ written' = written \cup FlashWrites(firmware, k)
               /\ AfterCommand(IF k = Len(FlashArgs) THEN 0 ELSE 2)
       ELSE /\ written' = written
            /\ AfterCommand(2)
    /\ UNCHANGED <<invocation, goal, firmware0, runs, trees, ref, jobVars,
                   active, fsVars, frozenSeen, toolchainExit, remoteVars>>

\* rm -rf ${BUILD_DIR} ${UNIX_DIR}/build-standard
RmBuildDirs ==
    /\ target = "clean" /\ line \in 1..Len(CleanRecipe)
    /\ CleanRecipe[line] = "rm-rf"
    /\ \E exit \in {0, 1} :
        /\ buildDir' = IF exit = 0 THEN CleanBuildDir ELSE buildDir
        /\ AfterCommand(exit)
    /\ UNCHANGED <<invocation, restVars, ref, jobVars, active, firmware,
                   frozenSeen, toolchainExit, remoteVars>>

(***************************************************************************)
(* The workflow job.                                                       *)
(***************************************************************************)
JobRunning == invocation = "workflow" /\ pc \in 1..Len(Steps)

\* The step at pc has ended with the given exit status: its result is
\* recorded and the job goes on to the next step.
EndStep(exit) ==
    /\ results' = [results EXCEPT ![Steps[pc]] =
                      IF exit = 0 THEN "success" ELSE "failure"]
    /\ status' = StatusAfter(Steps[pc], status, exit)
    /\ pc' = pc + 1

\* A step whose condition is false is skipped.
SkipStep ==
    /\ JobRunning /\ ~active
    /\ ~ShouldRun(Steps[pc], status, ref)
    /\ results' = [results EXCEPT ![Steps[pc]] = "skipped"]
    /\ pc' = pc + 1
    /\ UNCHANGED <<invocation, restVars, ref, status, active, makeVars, fsVars,
                   frozenSeen, toolchainExit, remoteVars>>

\* A step of one action: it runs and exits with some status.
RunStep(name) ==
    /\ JobRunning /\ ~active
    /\ Steps[pc] = name
    /\ ShouldRun(name, status, ref)
    /\ \E exit \in {0, 1} : EndStep(exit)
    /\ UNCHANGED <<invocation, restVars, ref, active, makeVars, fsVars, frozenSeen,
                   toolchainExit, remoteVars>>

\* uses: actions/checkout@v3
Checkout == RunStep("Checkout")

\* git submodule update and make submodules in both ports
FetchSubmodules == RunStep("FetchSubmodules")

\* make test
Test == RunStep("Test")

\* uses: actions/upload-artifact@v3, path: firmware
UploadArtifacts == RunStep("UploadArtifacts")

\* The Build step starts: rm -rf of the mpy-cross build, then docker run of
\* make, whose default goal is build.  When the container cannot be
\* started the step ends there with docker's exit status.
BuildStepBegin ==
    /\ JobRunning /\ ~active
    /\ Steps[pc] = "Build"
    /\ ShouldRun("Build", status, ref)
    /\ line = 0 /\ makeExit = -1
    /\ \/ /\ line' = 1
          /\ active' = TRUE
          /\ UNCHANGED <<jobVars, makeExit, target>>
       \/ /\ EndStep(125)
          /\ UNCHANGED <<active, makeVars>>
    /\ UNCHANGED <<invocation, restVars, ref, fsVars, frozenSeen, toolchainExit,
                   remoteVars>>

\* make has exited: docker run exits with make's status, and so does the step.
BuildStepEnd ==
    /\ JobRunning /\ active
    /\ Steps[pc] = "Build"
    /\ makeExit >= 0
    /\ EndStep(makeExit)
    /\ active' = FALSE
    /\ UNCHANGED <<invocation, restVars, ref, makeVars, fsVars, frozenSeen,
                   toolchainExit, remoteVars>>

(***************************************************************************)
(* The upload steps: python ./tools/upload-to-golioth.py under the step's  *)
(* environment.                                                            *)
(***************************************************************************)
\* The step starts the script.
UploadBegin ==
    /\ JobRunning /\ ~active
    /\ Steps[pc] \in UploadSteps
    /\ ShouldRun(Steps[pc], status, ref)
    /\ \E plan \in FaultPlans :
        up' = [phase |-> "auth", attempts |-> 0, plan |-> plan]
    /\ invocations' = [invocations EXCEPT ![Steps[pc]] = @ + 1]
    /\ active' = TRUE
    /\ UNCHANGED <<invocation, restVars, ref, jobVars, makeVars, fsVars, frozenSeen,
                   toolchainExit, releases, rolloutCalls>>

\* The script authenticates with GOLIOTH_API_KEY; a failure is not retried.
Authenticate ==
    /\ up.phase = "auth"
    /\ up' = [up EXCEPT !.phase = IF up.plan.authFails THEN "failed" ELSE "upload"]
    /\ UNCHANGED <<invocation, restVars, ref, jobVars, active, makeVars, fsVars,
                   frozenSeen, toolchainExit, invocations, releases,
                   rolloutCalls>>

\* One attempt at uploading the bundle under GOLIOTH_BLUEPRINT.  A
\* transport failure is retried while attempts remain; a rejection is not.
\* After the service has accepted the release the script goes on to the
\* rollout when GOLIOTH_ROLLOUT is true, and is done otherwise.
UploadAttempt ==
    /\ up.phase = "upload"
    /\ LET n == up.attempts + 1
           outcome == AttemptOutcome(up.plan, n)
           env == StepEnv(Steps[pc])
       IN  /\ up' = [up EXCEPT
                       !.attempts = n,
                       !.phase = CASE outcome = "ok" ->
                                        IF env.rollout THEN "rollout" ELSE "ok"
                                   [] outcome = "rejected" -> "failed"
                                   [] outcome = "transport" ->
                                        IF RetryAllowed(n) THEN "upload" ELSE "failed"]
           /\ releases' = IF outcome = "ok"
                          THEN [releases EXCEPT ![env.blueprint] = @ + 1]
                          ELSE releases
    /\ UNCHANGED <<invocation, restVars, ref, jobVars, active, makeVars, fsVars,
                   frozenSeen, toolchainExit, invocations, rolloutCalls>>

\* The script sends the rollout command, once; its failure fails the script.
IssueRollout ==
    /\ up.phase = "rollout"
    /\ rolloutCalls' = rolloutCalls + 1
    /\ up' = [up EXCEPT !.phase = IF up.plan.rolloutFails THEN "failed" ELSE "ok"]
    /\ UNCHANGED <<invocation, restVars, ref, jobVars, active, makeVars, fsVars,
                   frozenSeen, toolchainExit, invocations, releases>>

\* The exit status of the script.
ScriptExit(phase) == IF phase = "ok" THEN 0 ELSE 1

\* The script has exited, and the step ends with its status.
UploadEnd ==
    /\ JobRunning /\ active
    /\ Steps[pc] \in UploadSteps
    /\ up.phase \in {"ok", "failed"}
    /\ EndStep(ScriptExit(up.phase))
    /\ active' = FALSE
    /\ UNCHANGED <<invocation, restVars, ref, makeVars, fsVars, frozenSeen,
                   toolchainExit, remoteVars>>

Next ==
    \/ SkipStep
    \/ Checkout
    \/ FetchSubmodules
    \/ Test
    \/ BuildStepBegin
    \/ RmFrozen
    \/ LnBoard
    \/ Toolchain
    \/ MkdirFirmware
    \/ CpArtifacts
    \/ EsptoolWriteFlash
    \/ RmBuildDirs
    \/ BuildStepEnd
    \/ UploadBegin
    \/ Authenticate
    \/ UploadAttempt
    \/ IssueRollout
    \/ UploadEnd
    \/ UploadArtifacts

Spec == Init /\ [][Next]_vars

\* The job and make do not stop while a step or a command is left to run.
FairSpec == Spec /\ WF_vars(Next)

\* The job has run all its steps; its conclusion is its status.
JobDone == invocation = "workflow" /\ pc = Len(Steps) + 1
Conclusion == IF JobDone THEN status ELSE "running"

TypeOK ==
    /\ invocation \in {"workflow", "make"}
    /\ goal \in {"build", "flash", "clean"}
    /\ target \in {"build", "flash", "clean"}
    /\ firmware0 \in EarlierFirmware
    /\ written \subseteq (Nat \X Content)
    /\ pc \in 1..(Len(Steps) + 1)
    /\ status \in {"success", "failure"}
    /\ results \in [StepNames -> {"pending", "success", "failure", "skipped"}]
    /\ active \in BOOLEAN
    /\ line \in 0..Len(BuildRecipe)
    /\ makeExit \in {-1, 0, 2}
    /\ buildDir \in [BuildFiles -> Content]
    /\ firmware.exists \in BOOLEAN
    /\ firmware.files \in [BundleNames -> Content]
    /\ frozenSeen \in Content \cup {"notrun"}
    /\ toolchainExit \in {-1, 0, 1}
    /\ up.phase \in {"idle", "auth", "upload", "rollout", "ok", "failed"}
    /\ up.attempts \in 0..MaxAttempts
    /\ rolloutCalls \in Nat

(***************************************************************************)
(* Concurrent runs of the job, each at its Build step.  A file of a        *)
(* workspace is 0 (absent) or the run whose toolchain wrote it.            *)
(***************************************************************************)
\* The number of runs of the job under way at once.
NumRuns == 2

RunIds == 1..NumRuns

\* Every run in one and the same workspace, as on a runner that keeps it.
WorkspaceShared(r) == 1

\* runs-on: ubuntu-latest: each run of the job gets a hosted runner of its
\* own, and with it a workspace of its own; the paths of the Makefile all
\* lie below ${CURDIR}, the workspace.
Workspace(r) == r

Workspaces == {Workspace(r) : r \in RunIds}

FreshTree ==
    [buildDir |-> [f \in BuildFiles |-> 0],
     firmware |-> [exists |-> FALSE, files |-> [n \in BundleNames |-> 0]]]

\* The sets of files one toolchain run may write.
ToolchainFileSets ==
    {BuildFiles, BuildFiles \ {<<"micropython.bin">>}, {FrozenContent}}

soloVars == <<invocation, goal, target, firmware0, written, ref, pc, status,
              results, active, line, makeExit, buildDir, firmware,
              frozenSeen, toolchainExit, up, invocations, releases,
              rolloutCalls>>

InitJobs ==
    /\ invocation = "jobs"
    /\ goal = "build"
    /\ target = "build"
    /\ firmware0 = NoFirmware
    /\ written = {}
    /\ ref = RefsHeadsMain
    /\ pc = 4
    /\ status = "success"
    /\ results = [s \in StepNames |-> "pending"]
    /\ active = FALSE
    /\ line = 0
    /\ makeExit = -1
    /\ buildDir = CleanBuildDir
    /\ firmware = NoFirmware
    /\ frozenSeen = "notrun"
    /\ toolchainExit = -1
    /\ up = IdleUpload
    /\ invocations = [s \in UploadSteps |-> 0]
    /\ releases = [b \in Blueprints |-> 0]
    /\ rolloutCalls = 0
    /\ runs = [r \in RunIds |-> [line |-> 1, exit |-> -1]]
    /\ trees = [w \in Workspaces |-> FreshTree]

\* The run after one command of its make has exited, as AfterCommand.
RunAfter(r, exit) ==
    IF exit # 0
    THEN [line |-> 0, exit |-> 2]
    ELSE IF runs[r].line = Len(BuildRecipe)
         THEN [line |-> 0, exit |-> 0]
         ELSE [line |-> runs[r].line + 1, exit |-> runs[r].exit]

RunAt(r, command) ==
    /\ invocation = "jobs"
    /\ runs[r].line \in 1..Len(BuildRecipe)
    /\ BuildRecipe[runs[r].line] = command

\* rm -f ${BUILD_DIR}/frozen_content.c in the run's workspace
JobRmFrozen(r) ==
    /\ RunAt(r, "rm")
    /\ \E exit \in {0, 1} :
        /\ trees' = IF exit = 0
                    THEN [trees EXCEPT ![Workspace(r)].buildDir[FrozenContent] = 0]
                    ELSE trees
        /\ runs' = [runs EXCEPT ![r] = RunAfter(r, exit)]
    /\ UNCHANGED soloVars

\* ln -sfn ${CURDIR}/board ${PORT_DIR}/boards/ribbit
JobLnBoard(r) ==
    /\ RunAt(r, "ln")
    /\ \E exit \in {0, 1} : runs' = [runs EXCEPT ![r] = RunAfter(r, exit)]
    /\ UNCHANGED <<soloVars, trees>>

\* make -C ${PORT_DIR} ...: the toolchain writes files of the BUILD_DIR of
\* the run's workspace.
JobToolchain(r) ==
    /\ RunAt(r, "make")
    /\ \E exit \in {0, 1}, fs \in ToolchainFileSets :
        /\ trees' = [trees EXCEPT ![Workspace(r)].buildDir =
                        [f \in BuildFiles |-> IF f \in fs THEN r ELSE @[f]]]
        /\ runs' = [runs EXCEPT ![r] = RunAfter(r, exit)]
    /\ UNCHANGED soloVars

\* mkdir -p ./firmware
JobMkdirFirmware(r) ==
    /\ RunAt(r, "mkdir")
    /\ trees' = [trees EXCEPT ![Workspace(r)].firmware.exists = TRUE]
    /\ runs' = [runs EXCEPT ![r] = RunAfter(r, 0)]
    /\ UNCHANGED soloVars

\* cp of the four outputs into ./firmware of the run's workspace
JobCpArtifacts(r) ==
    /\ RunAt(r, "cp")
    /\ LET tree == trees[Workspace(r)]
           dir == tree.buildDir
           present == {p \in OutputSet : dir[p] # 0}
       IN  /\ trees' = [trees EXCEPT ![Workspace(r)].firmware.files =
                          [n \in BundleNames |->
                              IF \E p \in present : Basename(p) = n
                              THEN dir[CHOOSE p \in present : Basename(p) = n]
                              ELSE @[n]]]
           /\ runs' = [runs EXCEPT ![r] =
                          RunAfter(r, IF tree.firmware.exists /\ present = OutputSet
                                      THEN 0 ELSE 1)]
    /\ UNCHANGED soloVars

NextJobs ==
    \E r \in RunIds :
        \/ JobRmFrozen(r)
        \/ JobLnBoard(r)
        \/ JobToolchain(r)
        \/ JobMkdirFirmware(r)
        \/ JobCpArtifacts(r)

SpecJobs == InitJobs /\ [][NextJobs]_vars

(***************************************************************************)
(* Properties.                                                             *)
(***************************************************************************)
\* s begins with prefix, character for character.
BeginsWith(s, prefix) ==
    Len(prefix) <= Len(s) /\ SubSeq(s, 1, Len(prefix)) = prefix

Started == {s \in UploadSteps : invocations[s] > 0}

\* The job has been through both upload steps.
PastUploads == invocation = "workflow" /\ pc > Len(Steps) - 1

BetaTarget ==
    [project |-> "ribbit", blueprint |-> BetaBlueprint, rollout |-> TRUE]
ProductionTarget ==
    [project |-> "ribbit", blueprint |-> ProductionBlueprint, rollout |-> FALSE]

\* C1: the job acts on the beta target (beta blueprint, rollout true)
\* exactly when the ref is refs/heads/main, on the production target
\* (production blueprint, rollout false) exactly when the ref begins with
\* refs/tags/v, and on no target otherwise: an upload step that has started
\* is the one of the ref's target, and a run whose build succeeded starts
\* the upload step of its ref's target.
C1_SelectsByRef ==
    invocation = "workflow" =>
        /\ \A s \in Started :
            \/ s = "UploadMain" /\ ref = RefsHeadsMain /\ StepEnv(s) = BetaTarget
            \/ s = "UploadRelease" /\ BeginsWith(ref, RefsTagsV)
                  /\ StepEnv(s) = ProductionTarget
        /\ (PastUploads /\ results["Build"] = "success") =>
            /\ ref = RefsHeadsMain => Started = {"UploadMain"}
            /\ BeginsWith(ref, RefsTagsV) => Started = {"UploadRelease"}

\* C2: in a run on a version tag, whose target is the production target
\* with rollout false, no rollout command is ever sent, and the script never
\* comes to the point of sending one, also after the release was accepted.
C2_NoRolloutOnRelease ==
    (invocation = "workflow" /\ ExprStartsWith(ref, RefsTagsV)) =>
        /\ rolloutCalls = 0
        /\ up.phase # "rollout"
        /\ \A t \in Resolve(ref) : ~t.rollout

C2_Witness ==
    /\ JobDone
    /\ BeginsWith(ref, RefsTagsV)
    /\ results["UploadRelease"] = "success"
    /\ releases[ProductionBlueprint] = 1
    /\ rolloutCalls = 0

\* C3: in one run the script of an upload step is started at most once, no
\* blueprint receives more than one release, and at most one rollout command
\* is sent, whatever transport failures and retries occur and also when the
\* rollout command fails.
C3_AtMostOnce ==
    /\ \A s \in UploadSteps : invocations[s] <= 1
    /\ \A b \in Blueprints : releases[b] <= 1
    /\ rolloutCalls <= 1

C3_Witness ==
    /\ JobDone
    /\ invocations["UploadMain"] = 1
    /\ up.attempts = MaxAttempts
    /\ up.plan.rolloutFails
    /\ rolloutCalls = 1

\* C4: when make build has failed in a run of the job (the toolchain or the
\* copy into ./firmware exited non-zero), no upload step is started, nothing
\* is released or rolled out, and the job ends failed.
C4_BuildFailureAborts ==
    (invocation = "workflow" /\ (makeExit = 2 \/ toolchainExit = 1)) =>
        /\ makeExit = 2
        /\ Started = {}
        /\ \A b \in Blueprints : releases[b] = 0
        /\ rolloutCalls = 0
        /\ \A s \in UploadSteps : results[s] \in {"pending", "skipped"}
        /\ results["Build"] # "pending" =>
              status = "failure" /\ results["Build"] = "failure"
        /\ JobDone => Conclusion = "failure"

\* The copy failed after a toolchain run that exited zero, on main.
C4_Witness ==
    /\ JobDone
    /\ ref = RefsHeadsMain
    /\ toolchainExit = 0
    /\ makeExit = 2
    /\ results["UploadMain"] = "skipped"

C6_ZeroOrOneTarget ==
    invocation = "workflow" =>
        /\ Cardinality(Started) <= 1
        /\ Cardinality(Resolve(ref)) <= 1
        /\ \A s \in Started : StepEnv(s) \in Resolve(ref)
        /\ (PastUploads /\ results["Build"] = "success") =>
              Started = {s \in UploadSteps : StepIf(s, ref)}

C6_Witness ==
    /\ JobDone
    /\ ref = RefsHeadsMain
    /\ Started = {"UploadMain"}
    /\ results["UploadMain"] = "success"
    /\ results["UploadRelease"] = "skipped"

\* C7: whenever make build has exited with status zero, each of the four
\* artifacts is a non-empty file of the build directory; a toolchain run
\* that exited zero and left one of them missing or empty makes build fail.
C7_SuccessMeansFourNonEmpty ==
    makeExit = 0 => \A p \in OutputSet : buildDir[p] \notin {"absent", "empty"}

\* C8: when the transport fails on the first N attempts of the upload on
\* main, N below the number of attempts, and nothing else fails, the script
\* ends successfully with the release accepted once and exactly one rollout
\* command sent; retries never make it more than one.
C8_RetriesThenOneRollout ==
    /\ [](rolloutCalls <= 1)
    /\ (/\ up.phase = "auth"
        /\ Steps[pc] = "UploadMain"
        /\ ~up.plan.authFails
        /\ up.plan.transportFails < MaxAttempts
        /\ ~up.plan.rejects
        /\ ~up.plan.rolloutFails)
       ~> (/\ up.phase = "ok"
           /\ up.attempts = up.plan.transportFails + 1
           /\ releases[BetaBlueprint] = 1
           /\ rolloutCalls = 1)

C8_Witness ==
    /\ up.phase = "ok"
    /\ active
    /\ Steps[pc] = "UploadMain"
    /\ up.plan.transportFails = MaxAttempts - 1
    /\ up.attempts = MaxAttempts
    /\ rolloutCalls = 1

\* C9: when the upload script has ended in failure, in whatever phase
\* (authentication, rejection, transport after the last attempt, rollout
\* command), its step has failed, the job's status is failure from then on
\* and the job ends failed.
C9_UploadFailureFailsJob ==
    /\ (up.phase = "failed" /\ ~active) =>
          /\ status = "failure"
          /\ \E s \in UploadSteps : results[s] = "failure"
    /\ (\E s \in UploadSteps : results[s] = "failure") => status = "failure"
    /\ (JobDone /\ up.phase = "failed") => Conclusion = "failure"

\* The rollout command failed after the release was accepted.
C9_Witness ==
    /\ JobDone
    /\ up.phase = "failed"
    /\ up.plan.rolloutFails
    /\ rolloutCalls = 1
    /\ Conclusion = "failure"

\* C10: the toolchain never starts while a frozen_content.c is present in
\* the build directory: when it started, the file was absent.
C10_NoStaleFrozenContent == frozenSeen \in {"notrun", "absent"}

\* The toolchain has started in a tree an earlier build had left its files
\* in (each such tree holds a stale frozen_content.c at the start).
C10_Witness ==
    /\ invocation = "make"
    /\ frozenSeen = "absent"
    /\ toolchainExit = 1
    /\ \A p \in OutputSet : buildDir[p] = "stale"

\* ./firmware holds a file under each of the four names of a bundle.
Complete(fw) == \A n \in BundleNames : HasFile(fw, n)

\* The build recipe has run to its end in this invocation of make.
BuildDone ==
    \/ goal = "build" /\ makeExit = 0
    \/ goal = "flash" /\ target = "flash"

\* C11: when the copy into ./firmware has failed because micropython.bin,
\* the application image, is missing from the build directory, ./firmware
\* does not look like a complete bundle unless it is as it was before: it
\* never holds files this copy put there together with files of an earlier
\* build under all four names.
C11_NoPartialBundleLeft ==
    (/\ toolchainExit = 0
     /\ makeExit = 2
     /\ firmware.exists
     /\ buildDir[<<"micropython.bin">>] = "absent"
     /\ \A p \in OutputSet : buildDir[p] # "empty") =>
        (firmware = firmware0 \/ ~Complete(firmware))

C14_RunsAreIsolated ==
    invocation = "jobs" =>
        /\ \A r1, r2 \in RunIds : r1 # r2 => Workspace(r1) # Workspace(r2)
        /\ \A r \in RunIds :
            /\ \A f \in BuildFiles :
                  trees[Workspace(r)].buildDir[f] \in {0, r}
            /\ \A n \in BundleNames :
                  trees[Workspace(r)].firmware.files[n] \in {0, r}

\* One run has bundled its own four files while another is about to copy
\* the four files of its own.
C14_Witness ==
    /\ invocation = "jobs"
    /\ runs[1].exit = 0
    /\ \A n \in BundleNames : trees[Workspace(1)].firmware.files[n] = 1
    /\ runs[2].line = Len(BuildRecipe)
    /\ \A p \in OutputSet : trees[Workspace(2)].buildDir[p] = 2

LogicalNames ==
    {"bootloader", "partition-table", "ota-init-data", "application-image"}

ToolchainNames ==
    {"bootloader.bin", "partition-table.bin", "ota_data_initial.bin",
     "micropython.bin"}

\* The names of the files ./firmware holds.
Held(fw) == {n \in DOMAIN fw.files : HasFile(fw, n)}

\* C15 as stated: after a build that ran to its end ./firmware holds a file
\* under each logical name: bootloader, partition-table, ota-init-data,
\* application-image.
C15_HoldsLogicalNames ==
    BuildDone => \A n \in LogicalNames : HasFile(firmware, n)

\* C15, amended: after a build that ran to its end ./firmware holds the
\* four artifacts under the file names the toolchain gave its outputs,
\* bootloader.bin, partition-table.bin, ota_data_initial.bin and
\* micropython.bin, each the copy of the output of that name; these are
\* the names the flash recipe reads.
C15_HoldsToolchainNames ==
    BuildDone =>
        /\ Held(firmware) = ToolchainNames
        /\ \A p \in OutputSet : p[Len(p)] \in Held(firmware)
        /\ \A i \in 1..Len(FlashArgs) : FlashArgs[i][2] \in Held(firmware)

C15_Witness ==
    /\ invocation = "make"
    /\ goal = "build"
    /\ makeExit = 0
    /\ firmware0 = NoFirmware
    /\ HasFile(firmware, "micropython.bin")
    /\ firmware.files["micropython.bin"] = "fresh"

\* C16: the copy passes content through: after a build that ran to its
\* end each file of ./firmware has the content of the output it was copied
\* from, and copying the same outputs into any other directory, whatever
\* it held before, gives the same content under every name.
C16_ContentPassedThrough ==
    BuildDone =>
        \A p \in OutputSet :
            /\ firmware.files[Basename(p)] = buildDir[p]
            /\ \A d1, d2 \in EarlierFirmware :
                /\ Copied(buildDir, d1.files, Basename(p))
                      = Copied(buildDir, d2.files, Basename(p))
                /\ Copied(buildDir, d1.files, Basename(p)) = buildDir[p]

\* The outputs of this build were copied into a directory that held one
\* file of an earlier build.
C16_Witness ==
    /\ goal = "flash"
    /\ target = "flash"
    /\ firmware0.exists
    /\ firmware0.files["bootloader.bin"] = "stale"
    /\ firmware0.files["micropython.bin"] = "absent"
    /\ \A p \in OutputSet : buildDir[p] = "fresh"
    /\ \A n \in BundleNames : firmware.files[n] = "fresh"

\* C17: make flash runs the build recipe first and starts esptool.py only
\* after the toolchain and the copy of that same invocation succeeded; when
\* esptool.py succeeds it has written exactly the four files of ./firmware
\* at 0x0, 0x8000, 0xd000 and 0x10000, four distinct offsets; when the build
\* fails nothing is written to the device.
C17_FlashOnlyAfterBuild ==
    /\ (target = "flash" \/ written # {}) =>
          /\ goal = "flash"
          /\ toolchainExit = 0
          /\ frozenSeen # "notrun"
          /\ \A p \in OutputSet :
                /\ HasFile(firmware, Basename(p))
                /\ firmware.files[Basename(p)] = buildDir[p]
    /\ (goal = "flash" /\ makeExit = 0) =>
          /\ target = "flash"
          /\ written = { <<0, firmware.files["bootloader.bin"]>>,
                         <<32768, firmware.files["partition-table.bin"]>>,
                         <<53248, firmware.files["ota_data_initial.bin"]>>,
                         <<65536, firmware.files["micropython.bin"]>> }
    /\ Cardinality({FlashArgs[i][1] : i \in 1..Len(FlashArgs)}) = 4
    /\ (target = "build" /\ makeExit = 2) => written = {}

C17_Witness ==
    /\ goal = "flash"
    /\ makeExit = 0
    /\ toolchainExit = 0
    /\ written = {<<0, "fresh">>, <<32768, "fresh">>, <<53248, "fresh">>,
                  <<65536, "fresh">>}

\* C18: in a run of the job an upload step starts, and a release or a
\* rollout happens, only after the Test step and the Build step of that run
\* have succeeded; a run whose Test step failed runs no make, no toolchain,
\* no upload and no rollout, whatever its ref.
C18_UploadOnlyAfterTestAndBuild ==
    invocation = "workflow" =>
        /\ (\/ Started # {}
            \/ rolloutCalls > 0
            \/ \E b \in Blueprints : releases[b] > 0) =>
              /\ results["Test"] = "success"
              /\ results["Build"] = "success"
              /\ makeExit = 0
        /\ results["Build"] = "success" => results["Test"] = "success"
        /\ results["Test"] = "failure" =>
              /\ line = 0 /\ makeExit = -1 /\ toolchainExit = -1
              /\ results["Build"] \in {"pending", "skipped"}
              /\ Started = {}
              /\ rolloutCalls = 0
              /\ \A b \in Blueprints : releases[b] = 0

C18_Witness ==
    /\ JobDone
    /\ ref = RefsHeadsMain
    /\ results["Test"] = "failure"
    /\ results["Build"] = "skipped"
    /\ results["UploadMain"] = "skipped"
    /\ Conclusion = "failure"

\* C19: when the toolchain has exited non-zero make has stopped there, and
\* ./firmware is exactly as it was when make started: not created, no file
\* added, replaced or removed; make clean leaves ./firmware as it was too.
C19_FirmwareUntouched ==
    /\ toolchainExit = 1 =>
          /\ line = 0 /\ makeExit = 2
          /\ firmware = firmware0
    /\ goal = "clean" => firmware = firmware0

\* The toolchain failed after writing outputs, in a tree without ./firmware.
C19_Witness ==
    /\ invocation = "make"
    /\ toolchainExit = 1
    /\ makeExit = 2
    /\ \A p \in OutputSet : buildDir[p] = "fresh"
    /\ ~firmware0.exists
    /\ ~firmware.exists

====
